---- MODULE Spec2Model ----
(***************************************************************************)
(* A model of the sliding-block puzzle solver: the board / move model of   *)
(* board.rs and the breadth-first search and path reconstruction of        *)
(* main.rs.                                                                *)
(*                                                                         *)
(* Coordinates are u32 in the source.  A u32 value v is represented by the *)
(* integer v when v < 2^31 and by v - 2^32 otherwise (its two's complement *)
(* reading), so wrapping subtraction is plain integer subtraction and an   *)
(* unsigned comparison is ULt below.                                       *)
(***************************************************************************)
EXTENDS Integers, Sequences, FiniteSets, TLC

(* ---------------------------------------------------------------- bounds *)
MaxW == 4
MaxH == 2
MaxPieces == 2
MaxSteps == 6

(* ------------------------------------------------------- primitive types *)
\* unsigned `a < b` on the two's complement representation
ULt(a, b) == IF (a < 0) = (b < 0) THEN a < b ELSE b < 0

Direction == {"Horizontal", "Vertical"}

\* Option<T>: None is the empty sequence, Some(v) the one-element sequence
None == << >>
Some(v) == << v >>

\* Vec::contains
Contains(s, e) == \E i \in 1..Len(s) : s[i] = e

RECURSIVE Flatten(_)
\* concatenation of a sequence of sequences (flat_map / append in order)
Flatten(ss) == IF ss = << >> THEN << >> ELSE Head(ss) \o Flatten(Tail(ss))

(* ----------------------------------------------------------------- Piece *)
\* Piece::new and Piece::marked
Piece(location, size, direction, marked) ==
    [size |-> size, location |-> location, direction |-> direction, marked |-> marked]

\* Piece::occupies: the `size` tiles from `location` along `direction`
occupies(p) ==
    [k \in 1..p.size |->
        IF p.direction = "Horizontal"
        THEN << p.location[1] + (k - 1), p.location[2] >>
        ELSE << p.location[1], p.location[2] + (k - 1) >>]

(* ------------------------------------------------------------------ Move *)
Move(dir, tile, steps) == [dir |-> dir, tile |-> tile, steps |-> steps]

\* Move::get_tile
get_tile(m) == m.tile

(* ----------------------------------------------------------------- Board *)
\* occupied_tiles collecting only the origin tile of each piece
occupied_tiles_origins(pieces) == [k \in 1..Len(pieces) |-> pieces[k].location]

\* Board::occupied_tiles: flat_map of occupies over the pieces, in order
occupied_tiles(pieces) == Flatten([k \in 1..Len(pieces) |-> occupies(pieces[k])])

\* Board::new with the win test on any piece, marked or not
BoardNew_any_piece(width, height, goal, pieces) ==
    [width |-> width, height |-> height, goal |-> goal,
     is_won |-> \E k \in 1..Len(pieces) : Contains(occupies(pieces[k]), goal),
     pieces |-> pieces,
     occupied_tiles |-> occupied_tiles(pieces)]

\* Board::new
BoardNew(width, height, goal, pieces) ==
    [width |-> width, height |-> height, goal |-> goal,
     is_won |-> \E k \in 1..Len(pieces) :
                   pieces[k].marked /\ Contains(occupies(pieces[k]), goal),
     pieces |-> pieces,
     occupied_tiles |-> occupied_tiles(pieces)]

\* Board::tile_exists
tile_exists(b, t) == ULt(t[1], b.width) /\ ULt(t[2], b.height)

\* Board::empty_tile
empty_tile(b, t) == tile_exists(b, t) /\ ~Contains(b.occupied_tiles, t)

RECURSIVE ProbeRight_from_origin(_, _, _, _, _)
\* ProbeRight probing from the piece's origin instead of its far end
ProbeRight_from_origin(b, x, y, end, i) ==
    IF ~empty_tile(b, << x + i, y >>) THEN << >>
    ELSE << Move("Right", << x, y >>, i) >> \o ProbeRight_from_origin(b, x, y, end, i + 1)

\* ProbeRight that stops after the first step
ProbeRight_single_step(b, x, y, end, i) ==
    IF i > 1 \/ ~empty_tile(b, << end + i, y >>) THEN << >>
    ELSE << Move("Right", << x, y >> , i) >>

RECURSIVE ProbeRight(_, _, _, _, _)
\* all_moves, lines 124-129: `for i in 1..` pushing Right((x, y), i)
ProbeRight(b, x, y, end, i) ==
    IF ~empty_tile(b, << end + i, y >>) THEN << >>
    ELSE << Move("Right", << x, y >>, i) >> \o ProbeRight(b, x, y, end, i + 1)

RECURSIVE ProbeLeft(_, _, _, _, _)
\* all_moves, lines 131-136
ProbeLeft(b, x, y, start, i) ==
    IF ULt(start, i) \/ ~empty_tile(b, << start - i, y >>) THEN << >>
    ELSE << Move("Left", << x, y >>, i) >> \o ProbeLeft(b, x, y, start, i + 1)

RECURSIVE ProbeUp(_, _, _, _, _)
\* all_moves, lines 141-146
ProbeUp(b, x, y, start, i) ==
    IF ULt(start, i) \/ ~empty_tile(b, << x, start - i >>) THEN << >>
    ELSE << Move("Up", << x, y >>, i) >> \o ProbeUp(b, x, y, start, i + 1)

RECURSIVE ProbeDown_unchecked(_, _, _, _, _)
\* ProbeDown testing only that the tile exists, not that it is free
ProbeDown_unchecked(b, x, y, end, i) ==
    IF ~tile_exists(b, << x, end + i >>) THEN << >>
    ELSE << Move("Down", << x, y >>, i) >> \o ProbeDown_unchecked(b, x, y, end, i + 1)

RECURSIVE ProbeDown(_, _, _, _, _)
\* all_moves, lines 148-153
ProbeDown(b, x, y, end, i) ==
    IF ~empty_tile(b, << x, end + i >>) THEN << >>
    ELSE << Move("Down", << x, y >>, i) >> \o ProbeDown(b, x, y, end, i + 1)

RECURSIVE probed_left_unguarded(_, _, _, _)
\* probed_left without the `start < i` test before the subtraction
probed_left_unguarded(b, y, start, i) ==
    << start - i >> \o
        (IF ~empty_tile(b, << start - i, y >>) THEN << >>
         ELSE probed_left_unguarded(b, y, start, i + 1))

RECURSIVE probed_left(_, _, _, _)
\* all_moves, lines 131-136: the values of `start - i` the Left loop
\* evaluates, in order (the `||` evaluates it only when start >= i)
probed_left(b, y, start, i) ==
    IF ULt(start, i) THEN << >>
    ELSE << start - i >> \o
            (IF ~empty_tile(b, << start - i, y >>) THEN << >>
             ELSE probed_left(b, y, start, i + 1))

RECURSIVE probed_up(_, _, _, _)
\* all_moves, lines 141-146: the values of `start - i` the Up loop evaluates
probed_up(b, x, start, i) ==
    IF ULt(start, i) THEN << >>
    ELSE << start - i >> \o
            (IF ~empty_tile(b, << x, start - i >>) THEN << >>
             ELSE probed_up(b, x, start, i + 1))

\* the body of the `for piece` loop of all_moves for one piece
piece_moves(b, piece) ==
    LET x == piece.location[1]
        y == piece.location[2]
    IN  IF piece.direction = "Horizontal"
        THEN ProbeRight(b, x, y, x + piece.size - 1, 1) \o ProbeLeft(b, x, y, x, 1)
        ELSE ProbeUp(b, x, y, y, 1) \o ProbeDown(b, x, y, y + piece.size - 1, 1)

\* Board::all_moves
all_moves(b) == Flatten([k \in 1..Len(b.pieces) |-> piece_moves(b, b.pieces[k])])

\* move_piece with the vertical offsets exchanged: Up adds, Down subtracts
move_piece_up_adds(p, mov) ==
    IF p.location = get_tile(mov)
    THEN LET x == p.location[1]
             y == p.location[2]
         IN  [p EXCEPT !.location =
                CASE mov.dir = "Left"  -> << x - mov.steps, y >>
                  [] mov.dir = "Right" -> << x + mov.steps, y >>
                  [] mov.dir = "Up"    -> << x, y + mov.steps >>
                  [] mov.dir = "Down"  -> << x, y - mov.steps >>]
    ELSE p

\* the closure of play: the piece located at the move's tile is relocated
move_piece(p, mov) ==
    IF p.location = get_tile(mov)
    THEN LET x == p.location[1]
             y == p.location[2]
         IN  [p EXCEPT !.location =
                CASE mov.dir = "Left"  -> << x - mov.steps, y >>
                  [] mov.dir = "Right" -> << x + mov.steps, y >>
                  [] mov.dir = "Up"    -> << x, y - mov.steps >>
                  [] mov.dir = "Down"  -> << x, y + mov.steps >>]
    ELSE p

\* play rebuilding the list as the untouched pieces followed by the moved one
play_moved_last(b, mov) ==
    LET Stays(p) == p.location # get_tile(mov)
        Moves(p) == p.location = get_tile(mov)
        moved == SelectSeq(b.pieces, Moves)
    IN  BoardNew(b.width, b.height, b.goal,
                 SelectSeq(b.pieces, Stays)
                 \o [k \in 1..Len(moved) |-> move_piece(moved[k], mov)])

\* Board::play
play(b, mov) ==
    BoardNew(b.width, b.height, b.goal,
             [k \in 1..Len(b.pieces) |-> move_piece(b.pieces[k], mov)])

\* reverse_move keeping the origin of the move it reverses
reverse_move_same_origin(mov) ==
    CASE mov.dir = "Left"  -> Move("Right", mov.tile, mov.steps)
      [] mov.dir = "Right" -> Move("Left",  mov.tile, mov.steps)
      [] mov.dir = "Up"    -> Move("Down",  mov.tile, mov.steps)
      [] mov.dir = "Down"  -> Move("Up",    mov.tile, mov.steps)

\* the reverse move computed by undo
reverse_move(mov) ==
    LET x == mov.tile[1]
        y == mov.tile[2]
    IN  CASE mov.dir = "Left"  -> Move("Right", << x - mov.steps, y >>, mov.steps)
          [] mov.dir = "Right" -> Move("Left",  << x + mov.steps, y >>, mov.steps)
          [] mov.dir = "Up"    -> Move("Down",  << x, y - mov.steps >>, mov.steps)
          [] mov.dir = "Down"  -> Move("Up",    << x, y + mov.steps >>, mov.steps)

\* undo playing the move itself instead of its reverse
undo_forward(b, mov) == play(b, mov)

\* Board::undo
undo(b, mov) == play(b, reverse_move(mov))

\* Board::future_boards: (board, move) pairs in the order of all_moves
future_boards(b) ==
    LET ms == all_moves(b)
    IN  [k \in 1..Len(ms) |-> << play(b, ms[k]), ms[k] >>]

(* ------------------------------------------------------ the initial board *)
\* the tiles of a width x height board
Tiles(w, h) == { << x, y >> : x \in 0..(w - 1), y \in 0..(h - 1) }

\* the set of tiles a piece covers
Footprint(p) == { occupies(p)[k] : k \in 1..p.size }

\* the pieces of size >= 1 that lie wholly on a w x h board
PiecesOn(w, h) ==
    { p \in [size : 1..(IF w > h THEN w ELSE h), location : Tiles(w, h),
             direction : Direction, marked : BOOLEAN] :
        Footprint(p) \subseteq Tiles(w, h) }

\* no tile is covered by two pieces
NonOverlapping(pieces) ==
    \A i, j \in 1..Len(pieces) :
        i < j => Footprint(pieces[i]) \cap Footprint(pieces[j]) = {}

\* every piece lies on the board
InBounds(w, h, pieces) ==
    \A i \in 1..Len(pieces) : Footprint(pieces[i]) \subseteq Tiles(w, h)

RECURSIVE ListsOf(_, _)
\* the non-overlapping lists of n pieces drawn from the set ps
ListsOf(ps, n) ==
    IF n = 0 THEN { << >> }
    ELSE { Append(l, p) : << l, p >> \in
             { lp \in ListsOf(ps, n - 1) \X ps :
                 \A i \in 1..Len(lp[1]) :
                     Footprint(lp[1][i]) \cap Footprint(lp[2]) = {} } }

\* the piece lists a puzzle is given: up to MaxPieces pieces on the board,
\* no two of them overlapping
PieceLists(w, h) ==
    LET ps == PiecesOn(w, h)
    IN  UNION { ListsOf(ps, n) : n \in 0..MaxPieces }

\* b is a puzzle the search is started on (main.rs builds one such board)
InitialBoard(b) ==
    \E w \in 1..MaxW, h \in 1..MaxH :
        \E l \in PieceLists(w, h), g \in Tiles(w, h) : b = BoardNew(w, h, g, l)

(* --------------------------------------------------------------- HashMap *)
\* HashMap::new
EmptyMap == [k \in {} |-> None]

\* HashMap::contains_key
contains_key(map, k) == k \in DOMAIN map

\* HashMap::insert (an existing key's value is replaced)
insert(map, k, v) == [x \in (DOMAIN map) \cup {k} |-> IF x = k THEN v ELSE map[x]]

(* ----------------------------------------------------------------- solve *)
\* filter_pair without the contains_key test: every pair is inserted and kept
filter_pair_unchecked(acc, pair) ==
    [kept |-> Append(acc.kept, pair),
     visited |-> insert(acc.visited, pair[1], Some(pair[2]))]

\* filter_pair inserting before it tests: a board seen again is dropped, but
\* its recorded move is replaced
filter_pair_overwrite(acc, pair) ==
    IF contains_key(acc.visited, pair[1])
    THEN [acc EXCEPT !.visited = insert(acc.visited, pair[1], Some(pair[2]))]
    ELSE [kept |-> Append(acc.kept, pair),
          visited |-> insert(acc.visited, pair[1], Some(pair[2]))]

\* the closure of the filter of solve, applied to one (board, move) pair:
\* acc.kept are the pairs kept so far, acc.visited the table
filter_pair(acc, pair) ==
    IF contains_key(acc.visited, pair[1])
    THEN acc
    ELSE [kept |-> Append(acc.kept, pair),
          visited |-> insert(acc.visited, pair[1], Some(pair[2]))]

RECURSIVE filter_from(_, _, _)
\* the filter run over bs[i..] in order
filter_from(bs, i, acc) ==
    IF i > Len(bs) THEN acc ELSE filter_from(bs, i + 1, filter_pair(acc, bs[i]))

\* boards.into_iter().filter(..).collect() together with its effect on the table
filter_boards(bs, vis) == filter_from(bs, 1, [kept |-> << >>, visited |-> vis])

\* the first n boards of the frontier, the ones the for loop of solve has
\* called future_boards on after n turns without a return
passed(bs, n) == [i \in 1..n |-> bs[i][1]]

\* first_won without the is_won test: the first board of the frontier
first_won_untested(bs) == IF bs # << >> THEN 1 ELSE 0

\* index of the first won board of the frontier, 0 when there is none
first_won(bs) ==
    IF \E i \in 1..Len(bs) : bs[i][1].is_won
    THEN CHOOSE i \in 1..Len(bs) :
            bs[i][1].is_won /\ \A j \in 1..(i - 1) : ~bs[j][1].is_won
    ELSE 0

\* new_boards after the for loop ran over the whole frontier
expand(bs) == Flatten([k \in 1..Len(bs) |-> future_boards(bs[k][1])])

RECURSIVE Reverse(_)
\* Vec::reverse
Reverse(s) == IF s = << >> THEN << >> ELSE Append(Reverse(Tail(s)), Head(s))

VARIABLES
    pc,        \* where main / solve stand
    start,     \* the board solve is called with
    visited,   \* previous_boards, the table solve fills
    boards,    \* the frontier of solve, (board, move) pairs
    steps,     \* the ply counter of solve
    board,     \* main's board: solve's result, then walked back
    history,   \* main's history
    result,    \* None, or Some of the (board, steps) pair solve returned
    expanded,  \* the boards solve has called future_boards on, in order
    B,         \* a board moves are generated on and played from
    moves,     \* B.all_moves()
    mv,        \* Some(m), the move last played on B, or None
    played,    \* B.play(m)
    undone,    \* B.play(m).undo(m)
    phase      \* which of play / undo was called last

solver == << pc, start, visited, boards, steps, board, history, result, expanded >>
walker == << B, moves, mv, played, undone, phase >>
vars == << pc, start, visited, boards, steps, board, history, result, expanded,
           B, moves, mv, played, undone, phase >>

\* main up to the call of solve
Init ==
    /\ pc = "main"
    /\ InitialBoard(start)
    /\ visited = EmptyMap
    /\ boards = << >>
    /\ steps = 0
    /\ board = start
    /\ history = << >>
    /\ result = None
    /\ expanded = << >>
    /\ B = start
    /\ moves = << >>
    /\ mv = None
    /\ played = start
    /\ undone = start
    /\ phase = "off"

\* solve, lines 53-55
SolveEnter ==
    /\ pc = "main"
    /\ boards' = future_boards(start)
    /\ visited' = insert(visited, start, None)
    /\ steps' = 0
    /\ expanded' = << start >>
    /\ pc' = "filter"
    /\ UNCHANGED << start, board, history, result >>
    /\ UNCHANGED walker

\* solve, lines 57-72: the frontier is filtered against the table, the ply
\* counter goes up
Filter ==
    /\ pc = "filter"
    /\ steps < MaxSteps
    /\ LET r == filter_boards(boards, visited)
       IN  /\ boards' = r.kept
           /\ visited' = r.visited
    /\ steps' = steps + 1
    /\ pc' = "scan"
    /\ UNCHANGED << start, board, history, result, expanded >>
    /\ UNCHANGED walker

\* solve, lines 74-75: the for loop meets a won board and solve returns it;
\* main, lines 28-31
ScanReturn ==
    /\ pc = "scan"
    /\ first_won(boards) # 0
    /\ result' = Some(<< boards[first_won(boards)][1], steps >>)
    /\ board' = boards[first_won(boards)][1]
    /\ history' = << >>
    /\ expanded' = expanded \o passed(boards, first_won(boards) - 1)
    /\ pc' = "walk"
    /\ UNCHANGED << start, visited, boards, steps >>
    /\ UNCHANGED walker

\* solve, lines 74-81: no board of the frontier is won, the frontier becomes
\* the successors of its boards
ScanExpand ==
    /\ pc = "scan"
    /\ first_won(boards) = 0
    /\ boards' = expand(boards)
    /\ expanded' = expanded \o passed(boards, Len(boards))
    /\ pc' = "filter"
    /\ UNCHANGED << start, visited, steps, board, history, result >>
    /\ UNCHANGED walker

\* main, lines 32-36: one turn of the while loop with a recorded move
WalkBack ==
    /\ pc = "walk"
    /\ contains_key(visited, board)
    /\ visited[board] # None
    /\ history' = Append(history, visited[board][1])
    /\ board' = undo(board, visited[board][1])
    /\ UNCHANGED << pc, start, visited, boards, steps, result, expanded >>
    /\ UNCHANGED walker

\* main, lines 32-39: the while loop ends (no entry, or the entry None) and
\* the history is reversed
WalkEnd ==
    /\ pc = "walk"
    /\ ~contains_key(visited, board) \/ visited[board] = None
    /\ history' = Reverse(history)
    /\ pc' = "done"
    /\ UNCHANGED << start, visited, boards, steps, board, result, expanded >>
    /\ UNCHANGED walker

Next ==
    \/ SolveEnter
    \/ Filter
    \/ ScanReturn
    \/ ScanExpand
    \/ WalkBack
    \/ WalkEnd

Spec == Init /\ [][Next]_vars

\* ENABLED <<Next>>_vars read off the guards: solve is entered, a frontier
\* is scanned, the walk-back turns or ends, and the filter runs while the
\* ply counter is below the bound
NextEnabled ==
    \/ pc \in { "main", "scan", "walk" }
    \/ pc = "filter" /\ steps < MaxSteps

\* main is one sequential thread: a step that can be taken is taken. The
\* conjunct is weak fairness of Next, the definition of WF written out
\* with NextEnabled for ENABLED <<Next>>_vars
SpecFair == Spec /\ ([]<>(~NextEnabled) \/ []<><<Next>>_vars)

(* --------------------------------------------- the ply counter at its top *)
\* u32::MAX, the largest value of the ply counter `steps` (solve returns
\* (Board, u32)), on the two's complement representation
U32_MAX == 0 - 1

\* solve, lines 56-82, turned over and over on an empty frontier: a turn
\* filters nothing, admits nothing, finds no won board and expands nothing,
\* so it changes `steps` alone, by one. The turns between the bound MaxSteps
\* and the top of the counter are taken here in one step, which leaves the
\* loop at its head with steps = u32::MAX - 1
EmptyTurns ==
    /\ pc = "filter"
    /\ boards = << >>
    /\ steps >= 0
    /\ steps' = U32_MAX - 1
    /\ UNCHANGED << pc, start, visited, boards, board, history, result, expanded >>
    /\ UNCHANGED walker

\* solve, lines 57-72 with steps = u32::MAX in a build with overflow checks
\* (the debug profile): the frontier is filtered, then `steps += 1` panics
\* with "attempt to add with overflow" and the program ends. In a build
\* without the checks (the release profile) the add wraps to 0: that is
\* Filter, whose steps + 1 on this representation is the wrapping add
FilterPanic ==
    /\ pc = "filter"
    /\ steps = U32_MAX
    /\ LET r == filter_boards(boards, visited)
       IN  /\ boards' = r.kept
           /\ visited' = r.visited
    /\ pc' = "panic"
    /\ UNCHANGED << start, steps, board, history, result, expanded >>
    /\ UNCHANGED walker

NextLong ==
    \/ Next
    \/ EmptyTurns
    \/ FilterPanic

\* main and solve with the long runs of the loop included
SpecLong == Init /\ [][NextLong]_vars

(* ------------------------------------------- moves played on single boards *)
\* a board as Board::new builds it from the puzzle's input
InitBoard ==
    /\ InitialBoard(B)
    /\ moves = << >>
    /\ mv = None
    /\ played = B
    /\ undone = B
    /\ phase = "board"
    /\ pc = "off"
    /\ start = BoardNew(1, 1, << 0, 0 >>, << >>)
    /\ visited = EmptyMap
    /\ boards = << >>
    /\ steps = 0
    /\ board = start
    /\ history = << >>
    /\ result = None
    /\ expanded = << >>

\* B.all_moves()
AllMoves ==
    /\ phase = "board"
    /\ moves' = all_moves(B)
    /\ phase' = "moves"
    /\ UNCHANGED << B, mv, played, undone >>
    /\ UNCHANGED solver

\* B.play(m) for a move m of B.all_moves()
Play ==
    /\ phase = "moves"
    /\ \E k \in 1..Len(moves) :
          /\ mv' = Some(moves[k])
          /\ played' = play(B, moves[k])
    /\ phase' = "played"
    /\ UNCHANGED << B, moves, undone >>
    /\ UNCHANGED solver

\* B.play(m).undo(m)
Undo ==
    /\ phase = "played"
    /\ undone' = undo(played, mv[1])
    /\ phase' = "undone"
    /\ UNCHANGED << B, moves, mv, played >>
    /\ UNCHANGED solver

\* the board reached by the move is the next board moves are played from
Advance ==
    /\ phase = "undone"
    /\ B' = played
    /\ moves' = << >>
    /\ mv' = None
    /\ played' = played
    /\ undone' = played
    /\ phase' = "board"
    /\ UNCHANGED solver

NextBoard ==
    \/ AllMoves
    \/ Play
    \/ Undo
    \/ Advance

SpecBoard == InitBoard /\ [][NextBoard]_vars

(* ================================================================ claims *)
\* the boards one legal slide away from b
Succ(b) == LET ms == all_moves(b) IN { play(b, ms[k]) : k \in 1..Len(ms) }

RECURSIVE Levels(_, _)
\* the boards at most n legal slides from b0 (seen) and those exactly n
\* slides from it (layer), by the definition of distance
Levels(b0, n) ==
    IF n = 0 THEN [seen |-> { b0 }, layer |-> { b0 }]
    ELSE LET r == Levels(b0, n - 1)
             next == UNION { Succ(b) : b \in r.layer } \ r.seen
         IN  [seen |-> r.seen \cup next, layer |-> next]

\* the boards reached from b0 by at most n legal slides
Within(b0, n) == Levels(b0, n).seen

\* solve has returned
Returned == result # None

\* C1 (as claimed): when solve returns (board, steps), steps is the length of
\* the shortest sequence of legal slides from the initial board to any won
\* board, the empty sequence included
C1_Claimed ==
    Returned =>
        /\ \E b \in Within(start, result[1][2]) : b.is_won
        /\ \A n \in 0..(result[1][2] - 1) : \A b \in Within(start, n) : ~b.is_won

\* C2: for a board B reached from a valid initial board and a move m of
\* B.all_moves(), B.play(m).undo(m) equals B in every field
C2_PlayUndo == phase = "undone" => undone = B

\* a two-step move of a piece of size 2 was played and undone, next to a
\* second piece
C2_Witness ==
    /\ phase = "undone"
    /\ Len(B.pieces) = 2
    /\ mv[1].steps = 2
    /\ \E k \in 1..Len(B.pieces) : B.pieces[k].location = mv[1].tile /\ B.pieces[k].size = 2
    /\ played # B

\* the tiles of board b covered by no piece, by the rules of the game
\* (on the board, in no piece's footprint)
Free(b) == Tiles(b.width, b.height) \ UNION { Footprint(b.pieces[k]) : k \in 1..Len(b.pieces) }

\* the tile j steps beyond the end of piece p in direction dir
Beyond(p, dir, j) ==
    CASE dir = "Right" -> << p.location[1] + p.size - 1 + j, p.location[2] >>
      [] dir = "Left"  -> << p.location[1] - j, p.location[2] >>
      [] dir = "Down"  -> << p.location[1], p.location[2] + p.size - 1 + j >>
      [] dir = "Up"    -> << p.location[1], p.location[2] - j >>

\* k of the claim: the number of consecutive free tiles beyond that end
Run(b, p, dir) ==
    CHOOSE k \in 0..(b.width + b.height) :
        /\ \A j \in 1..k : Beyond(p, dir, j) \in Free(b)
        /\ Beyond(p, dir, k + 1) \notin Free(b)

\* the two directions along a piece's axis
Along(p) == IF p.direction = "Horizontal" THEN {"Left", "Right"} ELSE {"Up", "Down"}

\* the moves the claim describes for piece p of board b
RunMoves(b, p) ==
    UNION { { Move(d, p.location, j) : j \in 1..Run(b, p, d) } : d \in Along(p) }

\* C6: all_moves() emits, for every piece and each of the two directions of
\* its axis, exactly the steps 1..k, k the free run beyond that end, each
\* once, and nothing else (no move along the other axis)
C6_MovesAreRuns ==
    phase = "moves" =>
        /\ { moves[i] : i \in 1..Len(moves) } =
             UNION { RunMoves(B, B.pieces[n]) : n \in 1..Len(B.pieces) }
        /\ \A i, j \in 1..Len(moves) : moves[i] = moves[j] => i = j

\* all_moves() ran on a board with a vertical piece that can go one step
\* down and none up, and a piece of size 2 that can go two steps right
C6_Witness ==
    /\ phase = "moves"
    /\ \E n \in 1..Len(B.pieces) :
         /\ B.pieces[n].direction = "Vertical" /\ Run(B, B.pieces[n], "Up") = 0
         /\ Run(B, B.pieces[n], "Down") = 1
    /\ \E n \in 1..Len(B.pieces) :
         /\ B.pieces[n].size = 2 /\ Run(B, B.pieces[n], "Right") = 2
         /\ Contains(moves, Move("Right", B.pieces[n].location, 2))

\* C7: the tiles the moved piece covers after a move of all_moves() and did
\* not cover before are tiles of the board that were unoccupied before
C7_DestinationsFree ==
    phase = "played" =>
        \A n \in 1..Len(B.pieces) :
            \A t \in Footprint(played.pieces[n]) \ Footprint(B.pieces[n]) :
                tile_exists(B, t) /\ ~Contains(B.occupied_tiles, t)

\* a move was played next to another piece and the moved piece covers new tiles
C7_Witness ==
    /\ phase = "played"
    /\ Len(B.pieces) = 2
    /\ mv[1].dir = "Down"
    /\ \E n \in 1..2 : Footprint(played.pieces[n]) \ Footprint(B.pieces[n]) # {}

RECURSIVE Replay(_, _)
\* the board reached by playing the moves of ms in order from b
Replay(b, ms) == IF ms = << >> THEN b ELSE Replay(play(b, Head(ms)), Tail(ms))

RECURSIVE LegalFrom(_, _)
\* every move of ms is in all_moves() of the board it is played on
LegalFrom(b, ms) ==
    \/ ms = << >>
    \/ /\ Contains(all_moves(b), Head(ms))
       /\ LegalFrom(play(b, Head(ms)), Tail(ms))

\* C3: the walk back from the returned board W stays in the table, takes no
\* more than steps moves, and ends at the initial board; the reversed list
\* has steps moves, each legal where it is replayed, and the replay ends at W
C3_PathReconstruction ==
    /\ pc = "walk" =>
         /\ contains_key(visited, board)
         /\ Len(history) <= result[1][2]
         /\ visited[board] = None => board = start
    /\ pc = "done" =>
         /\ board = start
         /\ Len(history) = result[1][2]
         /\ LegalFrom(start, history)
         /\ Replay(start, history) = result[1][1]

\* a solution of three moves was reconstructed
C3_Witness == pc = "done" /\ Len(history) = 3 /\ result[1][2] = 3

\* scenario 3 of the specification: a row of four tiles, the marked piece
\* behind a blocker, the goal at the far end
Scenario3 ==
    BoardNew(4, 1, << 3, 0 >>,
             << Piece(<< 0, 0 >>, 1, "Horizontal", TRUE),
                Piece(<< 1, 0 >>, 1, "Horizontal", FALSE) >>)

\* C4: when no won board is admitted to the frontier solve never returns;
\* once the frontier is empty it stays empty in every later iteration, and
\* the loop goes on forever, each iteration adding one to the ply counter:
\* solve returns only a won board it admitted, the program never stops inside
\* the loop, a step taken with an empty frontier stays in the loop with an
\* empty frontier, and every pass from the filter to the scan raises the
\* (unsigned) ply counter by one
C4_Claimed ==
    /\ [](Returned =>
            /\ result[1][1].is_won
            /\ contains_key(visited, result[1][1])
            /\ visited[result[1][1]] # None)
    /\ [](pc # "panic")
    /\ [][(pc \in { "filter", "scan" } /\ boards = << >>) =>
            (pc' \in { "filter", "scan" } /\ boards' = << >> /\ result' = None)]_vars
    /\ [][(pc = "filter" /\ pc' = "scan") =>
            (steps' = steps + 1 /\ ULt(steps, steps'))]_vars

\* C5: started on a won board, solve returns no ply count of 0 and not the
\* initial board: what it returns was found by expansion, at ply >= 1
C5_RootNotTested ==
    (Returned /\ start.is_won) =>
        /\ result[1][2] >= 1
        /\ result[1][1] # start
        /\ contains_key(visited, result[1][1])
        /\ visited[result[1][1]] # None
        /\ result[1][1] \in Within(start, result[1][2])

\* solve was started on a won board and returned at ply 2
C5_Witness == Returned /\ start.is_won /\ result[1][2] = 2

\* the pieces of a board as a collection: how often each piece value occurs
PieceBag(b) ==
    [p \in { b.pieces[k] : k \in 1..Len(b.pieces) } |->
        Cardinality({ k \in 1..Len(b.pieces) : b.pieces[k] = p })]

\* the boards solve has produced so far: the keys of the table and the
\* boards of the frontier
Known == DOMAIN visited \cup { boards[i][1] : i \in 1..Len(boards) }

\* C8: two boards reached from the same initial board with the same
\* collection of pieces are the same Board value
C8_OneValuePerConfiguration ==
    \A b1, b2 \in Known : PieceBag(b1) = PieceBag(b2) => b1 = b2

\* a frontier holds the same board twice, reached by different moves, on a
\* puzzle with two unmarked pieces of the same shape
C8_Witness ==
    /\ pc = "filter"
    /\ Len(start.pieces) = 2
    /\ start.pieces[1].size = start.pieces[2].size
    /\ start.pieces[1].direction = start.pieces[2].direction
    /\ start.pieces[1].marked = start.pieces[2].marked
    /\ \E i, j \in 1..Len(boards) :
          /\ boards[i][1] = boards[j][1]
          /\ boards[i][2].tile # boards[j][2].tile

\* C9: when the boards of ply k are admitted, every board at distance less
\* than k is already in the table, every board admitted is at distance k
\* exactly, and the ply counter has gone up by one.  The boards admitted by
\* an iteration are the frontier it leaves (second conjunct), so the first
\* conjunct speaks of the table before and after the admission
C9_LevelOrder ==
    /\ [](pc = "scan" =>
            LET lv == Levels(start, steps)
                admitted == { boards[i][1] : i \in 1..Len(boards) }
            IN  /\ (lv.seen \ lv.layer) \subseteq (DOMAIN visited) \ admitted
                /\ admitted \subseteq lv.layer)
    /\ [][(pc = "filter" /\ pc' = "scan") =>
            /\ steps' = steps + 1
            /\ { boards'[i][1] : i \in 1..Len(boards') } = (DOMAIN visited') \ (DOMAIN visited)
         ]_vars

\* boards were admitted at ply 3, fewer than the frontier held
C9_Witness ==
    /\ pc = "scan"
    /\ steps = 3
    /\ boards # << >>
    /\ \E b \in DOMAIN visited : b \notin Within(start, 2)

\* C10: the table only grows: the initial board stays mapped to None, every
\* other key is mapped to Some(move), and no step removes a key or changes
\* the move recorded for one
C10_TableGrows ==
    /\ [](pc # "main" =>
            /\ contains_key(visited, start)
            /\ \A b \in DOMAIN visited : (visited[b] = None) <=> (b = start))
    /\ [][\A b \in DOMAIN visited :
            contains_key(visited', b) /\ visited'[b] = visited[b]]_vars

\* a board of the table was found again from an expanded board by another
\* move, and keeps the move recorded first
C10_Witness ==
    /\ pc = "scan"
    /\ \E b \in DOMAIN visited, q \in DOMAIN visited :
          /\ b # start
          /\ \A i \in 1..Len(boards) : boards[i][1] # q
          /\ \E k \in 1..Len(all_moves(q)) :
                /\ play(q, all_moves(q)[k]) = b
                /\ visited[b] # Some(all_moves(q)[k])

\* the offset a move stands for
Offset(m) ==
    CASE m.dir = "Left"  -> << 0 - m.steps, 0 >>
      [] m.dir = "Right" -> << m.steps, 0 >>
      [] m.dir = "Up"    -> << 0, 0 - m.steps >>
      [] m.dir = "Down"  -> << 0, m.steps >>

\* C11: B.play(m) relocates only the piece located at m's origin tile, by the
\* offset of m; every other piece keeps its location, every piece keeps its
\* size, direction, marked flag and place in the list, and width, height and
\* goal are unchanged
C11_PlayFrame ==
    phase = "played" =>
        /\ played.width = B.width /\ played.height = B.height /\ played.goal = B.goal
        /\ Len(played.pieces) = Len(B.pieces)
        /\ \A k \in 1..Len(B.pieces) :
              /\ played.pieces[k].size = B.pieces[k].size
              /\ played.pieces[k].direction = B.pieces[k].direction
              /\ played.pieces[k].marked = B.pieces[k].marked
              /\ played.pieces[k].location =
                   IF B.pieces[k].location = mv[1].tile
                   THEN << B.pieces[k].location[1] + Offset(mv[1])[1],
                           B.pieces[k].location[2] + Offset(mv[1])[2] >>
                   ELSE B.pieces[k].location
        /\ Cardinality({ k \in 1..Len(B.pieces) : played.pieces[k] # B.pieces[k] }) = 1

\* the second of two pieces was moved up, the first stayed
C11_Witness ==
    /\ phase = "played"
    /\ Len(B.pieces) = 2
    /\ mv[1].dir = "Up"
    /\ B.pieces[2].location = mv[1].tile
    /\ played.pieces[1] = B.pieces[1]
    /\ played.pieces[2].location[2] = B.pieces[2].location[2] - 1

\* the tiles piece p covers, from its origin, size and axis
Covered(p) ==
    { t \in (p.location[1]..(p.location[1] + p.size - 1))
            \X (p.location[2]..(p.location[2] + p.size - 1)) :
        IF p.direction = "Horizontal" THEN t[2] = p.location[2] ELSE t[1] = p.location[1] }

\* occupied_tiles of b lists the tiles its pieces cover, and each once when
\* no two pieces overlap
OccupancyExact(b) ==
    /\ { b.occupied_tiles[i] : i \in 1..Len(b.occupied_tiles) } =
         UNION { Covered(b.pieces[k]) : k \in 1..Len(b.pieces) }
    /\ (\A i, j \in 1..Len(b.pieces) :
           i < j => Covered(b.pieces[i]) \cap Covered(b.pieces[j]) = {})
       => \A i, j \in 1..Len(b.occupied_tiles) :
             b.occupied_tiles[i] = b.occupied_tiles[j] => i = j

\* C14: for every Board built by Board::new or produced by play or undo,
\* occupied_tiles is the union of occupies() over its pieces, without a
\* repeated tile when the pieces do not overlap
C14_Occupancy == OccupancyExact(B) /\ OccupancyExact(played) /\ OccupancyExact(undone)

\* a board of two pieces covering three tiles was played on and the move undone
C14_Witness ==
    /\ phase = "undone"
    /\ Len(B.pieces) = 2
    /\ Len(played.occupied_tiles) = 3
    /\ played.occupied_tiles # B.occupied_tiles

\* some marked piece of b covers the goal
MarkedOnGoal(b) ==
    \E k \in 1..Len(b.pieces) : b.pieces[k].marked /\ b.goal \in Covered(b.pieces[k])

\* C15: is_won holds exactly when some marked piece covers the goal with any
\* tile of its footprint; an unmarked piece on the goal does not win
C15_WonIffMarkedOnGoal ==
    /\ B.is_won <=> MarkedOnGoal(B)
    /\ played.is_won <=> MarkedOnGoal(played)
    /\ undone.is_won <=> MarkedOnGoal(undone)

\* a move was played on a board whose goal is covered by an unmarked piece,
\* next to a marked piece: the board reached is not won
C15_Witness ==
    /\ phase = "played"
    /\ ~played.is_won
    /\ \E k \in 1..Len(played.pieces) : played.pieces[k].marked
    /\ \E k \in 1..Len(played.pieces) :
          ~played.pieces[k].marked /\ played.goal \in Covered(played.pieces[k])

\* b has no tile covered twice and every covered tile on the board
ValidBoard(b) ==
    /\ \A i, j \in 1..Len(b.pieces) :
          i < j => Covered(b.pieces[i]) \cap Covered(b.pieces[j]) = {}
    /\ \A i \in 1..Len(b.pieces) : \A t \in Covered(b.pieces[i]) : tile_exists(b, t)

\* C16: from a non-overlapping, in-bounds board, every board reached by
\* moves of all_moves() applied with play is non-overlapping and in bounds
C16_ValidityPreserved == ValidBoard(B) /\ ValidBoard(played)

\* a piece was moved left until it touched the other piece
C16_Witness ==
    /\ phase = "played"
    /\ Len(B.pieces) = 2
    /\ mv[1].dir = "Left"
    /\ \E k \in 1..2 :
          /\ B.pieces[k].location = mv[1].tile
          /\ played.pieces[k].location[1] > 0
          /\ Run(played, played.pieces[k], "Left") = 0

\* the values of `start - i` all_moves evaluates for piece p of board b
Subtractions(b, p) ==
    IF p.direction = "Horizontal"
    THEN probed_left(b, p.location[2], p.location[1], 1)
    ELSE probed_up(b, p.location[1], p.location[2], 1)

\* C20: on boards reached from a valid initial board with pieces of size >= 1
\* no unsigned subtraction wraps (a wrapped value reads as a negative number):
\* not `start - i` in all_moves, not the new origin in play, not the origin
\* of the reverse move in undo; and every step count emitted is at least 1
\* and less than the width (Left, Right) or the height (Up, Down)
C20_NoUnderflow ==
    /\ phase = "moves" =>
          /\ \A k \in 1..Len(B.pieces) :
                \A i \in 1..Len(Subtractions(B, B.pieces[k])) :
                    Subtractions(B, B.pieces[k])[i] >= 0
          /\ \A i \in 1..Len(moves) :
                /\ moves[i].steps >= 1
                /\ moves[i].dir \in {"Left", "Right"} => moves[i].steps < B.width
                /\ moves[i].dir \in {"Up", "Down"} => moves[i].steps < B.height
                /\ moves[i].dir = "Left" => moves[i].steps <= moves[i].tile[1]
                /\ moves[i].dir = "Up" => moves[i].steps <= moves[i].tile[2]
    /\ phase = "played" =>
          \A k \in 1..Len(played.pieces) :
              played.pieces[k].location[1] >= 0 /\ played.pieces[k].location[2] >= 0
    /\ phase = "undone" =>
          /\ reverse_move(mv[1]).tile[1] >= 0 /\ reverse_move(mv[1]).tile[2] >= 0
          /\ \A k \in 1..Len(undone.pieces) :
                undone.pieces[k].location[1] >= 0 /\ undone.pieces[k].location[2] >= 0

\* a piece at the left edge was probed (the loop stopped at start < i), and a
\* piece was moved left by its whole distance to the edge and the move undone
C20_Witness ==
    /\ phase = "undone"
    /\ mv[1].dir = "Left"
    /\ mv[1].steps = 2
    /\ mv[1].tile[1] = 2
    /\ \E k \in 1..Len(B.pieces) :
          /\ B.pieces[k].direction = "Horizontal"
          /\ B.pieces[k].location[1] = 0
          /\ Subtractions(B, B.pieces[k]) = << >>

\* the 3x1 board with one marked piece of size 1 at (0,0) and goal (2,0)
Scenario1 ==
    BoardNew(3, 1, << 2, 0 >>, << Piece(<< 0, 0 >>, 1, "Horizontal", TRUE) >>)

\* C13: on Scenario1 solve returns ply count 1 and a won board, and the
\* walk-back of main yields the single move Right from (0,0) by 2 steps
C13_Scenario1 ==
    /\ (start = Scenario1 /\ Returned) =>
          /\ result[1][2] = 1
          /\ result[1][1].is_won
          /\ result[1][1].pieces = << Piece(<< 2, 0 >>, 1, "Horizontal", TRUE) >>
    /\ (start = Scenario1 /\ pc = "done") =>
          history = << Move("Right", << 0, 0 >>, 2) >>

\* main has finished on Scenario1
C13_Witness == start = Scenario1 /\ pc = "done" /\ Returned /\ Len(history) = 1

RECURSIVE BackTo(_, _, _)
\* the board reached from key b of table vis by undoing recorded moves until
\* an entry without a move is met, or None when n undos do not suffice or
\* the walk leaves the table
BackTo(vis, b, n) ==
    IF ~contains_key(vis, b) THEN None
    ELSE IF vis[b] = None THEN Some(b)
    ELSE IF n = 0 THEN None
    ELSE BackTo(vis, undo(b, vis[b][1]), n - 1)

\* C18: for every table entry (b, Some(m)) the board undo(b, m) is a key of
\* the table, m is one of its all_moves, and playing m on it gives b; and the
\* recorded moves lead from every key back to the initial board in fewer
\* steps than the table has keys
C18_TableChains ==
    \A b \in DOMAIN visited :
        /\ visited[b] # None =>
              LET m == visited[b][1]
                  parent == undo(b, m)
              IN  /\ contains_key(visited, parent)
                  /\ Contains(all_moves(parent), m)
                  /\ play(parent, m) = b
        /\ BackTo(visited, b, Cardinality(DOMAIN visited) - 1) = Some(start)

\* the table holds a board two recorded moves away from the initial board
C18_Witness ==
    /\ pc = "scan"
    /\ \E b \in DOMAIN visited :
          /\ visited[b] # None
          /\ undo(b, visited[b][1]) # start
          /\ contains_key(visited, undo(b, visited[b][1]))
          /\ visited[undo(b, visited[b][1])] # None

\* C19: solve calls future_boards on no board twice; a frontier that passed
\* the filter holds no board twice, no board already expanded, and never the
\* initial board
C19_ExpandedOnce ==
    /\ \A i, j \in 1..Len(expanded) : i # j => expanded[i] # expanded[j]
    /\ pc = "scan" =>
          \A i \in 1..Len(boards) :
              /\ boards[i][1] # start
              /\ \A j \in 1..Len(boards) : j # i => boards[j][1] # boards[i][1]
              /\ \A k \in 1..Len(expanded) : expanded[k] # boards[i][1]

\* the second frontier was filtered: the initial board was among its
\* candidates, and a board that two expanded boards both lead to was kept
C19_Witness ==
    /\ pc = "scan"
    /\ steps = 2
    /\ \E k1, k2 \in 2..Len(expanded) :
          /\ k1 # k2
          /\ start \in Succ(expanded[k1])
          /\ \E i \in 1..Len(boards) :
                boards[i][1] \in Succ(expanded[k1]) \cap Succ(expanded[k2])

RECURSIVE Closure(_)
\* the boards reachable from the boards of S by legal slides
Closure(S) ==
    LET T == S \cup UNION { Succ(b) : b \in S }
    IN  IF T = S THEN S ELSE Closure(T)

\* a won board other than b0 is reachable from b0 by one or more slides
Solvable(b0) == \E w \in Closure({ b0 }) : w.is_won /\ w # b0

\* C17: when a won board other than the initial board is reachable from it,
\* solve eventually returns, and the board it returns is won and is a key of
\* the table
C17_Terminates ==
    (pc = "main" /\ Solvable(start))
        ~> (/\ Returned
            /\ result[1][1].is_won
            /\ contains_key(visited, result[1][1]))

\* solve returned a won board three plies from a solvable initial board
C17_Witness ==
    /\ pc = "walk"
    /\ Returned
    /\ result[1][2] = 3
    /\ result[1][1].is_won
    /\ Solvable(start)

====
